---- MODULE Spec2Model ----
(***************************************************************************)
(* FileEncryptor (PasswordCRC tool set): passwordcrc-batch.py,             *)
(* passwordcrc-date.py and passwordcrc-decrypt.py.                         *)
(*                                                                         *)
(* A 32-bit checksum is a tuple of 32 bits, least significant bit first.   *)
(* A file's content is a tuple of bytes (0..255).                          *)
(***************************************************************************)
EXTENDS Integers, Sequences, FiniteSets, TLC

VARIABLES
    fs,              \* the files on disk: path -> content (a tuple of bytes)
    dirs,            \* the directories on disk
    clock,           \* the wall clock, in seconds
    tool,            \* the running script: "batch", "date", "decrypt", or "none"
    pc,              \* where main() is
    argv,            \* the command line the tool was started with
    args,            \* the parsed command line: directory, files, output, delete
    file_paths,      \* the list process_files iterates over
    idx,             \* index of the next target of process_files
    call,            \* calls of process_files so far
    output_dir,      \* output_dir (NoArg for None)
    delete_original, \* the delete flag
    inputs,          \* lines read from standard input so far
    log,             \* what was reported, one record per attempted target
    arg,             \* the argument a function is applied to on its own
    ret              \* its result

vars == <<fs, dirs, clock, tool, pc, argv, args, file_paths, idx, call, output_dir,
          delete_original, inputs, log, arg, ret>>

(***************************************************************************)
(* Bounds of the model.                                                    *)
(***************************************************************************)
MaxLen == 3        \* longest enumerated byte sequence
MaxChunk == 4      \* largest alternative chunk size tried
MaxTargets == 3    \* longest target list
MaxClock == 1      \* seconds the wall clock may advance
MaxInputs == 1     \* lines typed into an interactive loop

(***************************************************************************)
(* Bit vectors.                                                            *)
(***************************************************************************)
Width == 32
ChunkSize == 8192

Pow2(n) == 2 ^ n

\* the eight bits of each byte 0..255, least significant first
ByteBitsTable ==
    SubSeq([n \in 1..256 |-> SubSeq([i \in 1..8 |-> ((n - 1) \div Pow2(i - 1)) % 2], 1, 8)],
           1, 256)

ByteBits(b) == ByteBitsTable[b + 1]

BitsByte(s) ==
    s[1] + 2 * s[2] + 4 * s[3] + 8 * s[4] + 16 * s[5] + 32 * s[6] + 64 * s[7] + 128 * s[8]

Zero32 == SubSeq([i \in 1..Width |-> 0], 1, Width)
Ones32 == SubSeq([i \in 1..Width |-> 1], 1, Width)

XorBits(a, b) == SubSeq([i \in 1..Width |-> (a[i] + b[i]) % 2], 1, Width)

\* n-th byte (1 = least significant) of a 32-bit value
ByteOf(v, n) == BitsByte(SubSeq(v, 8 * (n - 1) + 1, 8 * n))

\* the 32-bit value whose bytes, least significant first, are bs (Len(bs) <= 4)
ByteAt(bs, n) == IF n <= Len(bs) THEN bs[n] ELSE 0

FromBytesLittle(bs) ==
    ByteBits(ByteAt(bs, 1)) \o ByteBits(ByteAt(bs, 2))
        \o ByteBits(ByteAt(bs, 3)) \o ByteBits(ByteAt(bs, 4))

\* int.to_bytes(4, 'little')
ToBytesLittle(v) == SubSeq([n \in 1..4 |-> ByteOf(v, n)], 1, 4)

(***************************************************************************)
(* zlib.crc32(chunk, crc): the reflected CRC-32, polynomial 0xEDB88320.    *)
(***************************************************************************)
Poly == FromBytesLittle(<<32, 131, 184, 237>>)

ShiftRight1(c) == SubSeq(c, 2, Width) \o <<0>>

CrcBitStep(c) == IF c[1] = 1 THEN XorBits(ShiftRight1(c), Poly) ELSE ShiftRight1(c)

Bits8(c) ==
    CrcBitStep(CrcBitStep(CrcBitStep(CrcBitStep(
        CrcBitStep(CrcBitStep(CrcBitStep(CrcBitStep(c))))))))

\* zlib's table: entry n + 1 is the register after the eight steps on byte n
CrcTable == SubSeq([n \in 1..256 |-> Bits8(FromBytesLittle(<<n - 1>>))], 1, 256)

ShiftRight8(c) == SubSeq(c, 9, Width) \o <<0, 0, 0, 0, 0, 0, 0, 0>>

\* crc = table[(crc ^ b) & 0xff] ^ (crc >> 8)
CrcByte(c, b) ==
    XorBits(CrcTable[ByteOf(XorBits(c, FromBytesLittle(<<b>>)), 1) + 1], ShiftRight8(c))

\* the register after bytes[i..], taken in order (the test of Len(c1) has TLC
\* work out c1 before it goes on to the next byte)
RECURSIVE CrcBytes(_, _, _)
CrcBytes(c, bytes, i) ==
    IF i > Len(bytes) THEN c
    ELSE LET c1 == CrcByte(c, bytes[i])
         IN  IF Len(c1) = Width THEN CrcBytes(c1, bytes, i + 1) ELSE c1

zlib_crc32(chunk, crc) == XorBits(CrcBytes(XorBits(crc, Ones32), chunk, 1), Ones32)

\* crc & 0xFFFFFFFF
Mask32(c) == SubSeq(c, 1, Width)

Min(a, b) == IF a < b THEN a ELSE b

\* the loop with the accumulator dropped: every chunk starts again from 0
RECURSIVE ReadChunks_reseed(_, _, _, _)
ReadChunks_reseed(bytes, pos, k, crc) ==
    LET chunk == SubSeq(bytes, pos, Min(pos + k - 1, Len(bytes)))
    IN  IF chunk = <<>> THEN crc
        ELSE ReadChunks_reseed(bytes, pos + k, k, zlib_crc32(chunk, Zero32))

\* for chunk in iter(lambda: f.read(k), b''): crc = zlib.crc32(chunk, crc)
\* (the test of Len(crc1) has TLC work out crc1 before it reads the next chunk)
RECURSIVE ReadChunks(_, _, _, _)
ReadChunks(bytes, pos, k, crc) ==
    LET chunk == SubSeq(bytes, pos, Min(pos + k - 1, Len(bytes)))
        crc1  == zlib_crc32(chunk, crc)
    IN  IF chunk = <<>> THEN crc
        ELSE IF Len(crc1) = Width THEN ReadChunks(bytes, pos + k, k, crc1) ELSE crc1

calculate_crc32_chunked(bytes, k) == Mask32(ReadChunks(bytes, 1, k, Zero32))

calculate_crc32(bytes) == calculate_crc32_chunked(bytes, ChunkSize)

(***************************************************************************)
(* format(crc32_value, '08x')                                              *)
(***************************************************************************)
HexChars == <<"0", "1", "2", "3", "4", "5", "6", "7",
              "8", "9", "a", "b", "c", "d", "e", "f">>

\* the k-th hex digit of v, k = 1 the most significant of the eight
Nibble(v, k) ==
    LET lo == 4 * (8 - k)
    IN  v[lo + 1] + 2 * v[lo + 2] + 4 * v[lo + 3] + 8 * v[lo + 4]

\* 'x': the digits of v without leading zeros ("0" for zero)
RECURSIVE StripZeros(_)
StripZeros(ds) ==
    IF Len(ds) > 1 /\ Head(ds) = 0 THEN StripZeros(Tail(ds)) ELSE ds

HexDigits(v) == StripZeros(SubSeq([k \in 1..8 |-> Nibble(v, k)], 1, 8))

\* '08': pad on the left with "0" to width 8
PadLeft(s, w, ch) == SubSeq([i \in 1..(w - Len(s)) |-> ch], 1, w - Len(s)) \o s

\* 'x': lowercase digits
HexString(ds) == SubSeq([i \in 1..Len(ds) |-> HexChars[ds[i] + 1]], 1, Len(ds))

\* format(crc32_value, 'x'): no padding
format_x(v) == HexString(HexDigits(v))

format_08x(v) == PadLeft(HexString(HexDigits(v)), 8, "0")

\* password = format(crc32_value, '08x').encode(): the ASCII codes of the characters
AsciiOf(ch) ==
    CASE ch = "0" -> 48 [] ch = "1" -> 49 [] ch = "2" -> 50 [] ch = "3" -> 51
      [] ch = "4" -> 52 [] ch = "5" -> 53 [] ch = "6" -> 54 [] ch = "7" -> 55
      [] ch = "8" -> 56 [] ch = "9" -> 57 [] ch = "a" -> 97 [] ch = "b" -> 98
      [] ch = "c" -> 99 [] ch = "d" -> 100 [] ch = "e" -> 101 [] ch = "f" -> 102
      [] OTHER -> 63

Encode(s) == SubSeq([i \in 1..Len(s) |-> AsciiOf(s[i])], 1, Len(s))

(***************************************************************************)
(* Paths.  A directory is a tuple of components, a file name a tuple of    *)
(* its dot-separated parts (a.txt is <<"a", "txt">>), a path a record of   *)
(* the two.  None (no directory given) is the empty tuple.                 *)
(***************************************************************************)
NoArg == <<>>

join(d, n) == [dir |-> d, name |-> n]
basename(p) == p.name
dirname(p) == p.dir

\* os.path.splitext(file_name): (stem, ext)
splitext(n) ==
    IF Len(n) > 1 THEN <<SubSeq(n, 1, Len(n) - 1), <<n[Len(n)]>> >> ELSE <<n, <<>> >>

\* f"{file_stem}{file_ext}.zip"
ZipName(n) == splitext(n)[1] \o splitext(n)[2] \o <<"zip">>

Lower(s) == IF s = "ZIP" THEN "zip" ELSE s

\* file_path.lower().endswith('.zip')
EndsWithZip(p) == Len(p.name) > 1 /\ Lower(p.name[Len(p.name)]) = "zip"

\* os.path.isfile / os.path.isdir
isfile(F, p) == p \in DOMAIN F
isdir(D, d) == d \in D

\* the directories os.makedirs(d, exist_ok=True) leaves on disk
Prefixes(d) == {SubSeq(d, 1, k) : k \in 1..Len(d)}

\* a directory below the read-only root "ro" cannot be created
MakedirsFails(D, d) == d \notin D /\ d[1] = "ro"

\* datetime.datetime.now().strftime('%Y-%m-%d-%H-%M-%S'): one name per second
strftime(now) == "T" \o ToString(now)

(***************************************************************************)
(* Files.  A file is its bytes; an archive written by the library also     *)
(* carries what the bytes after the local header stand for: the entry's    *)
(* name, the key it is encrypted under and the file stored in it.          *)
(***************************************************************************)
PlainFile(bytes) == [bytes |-> bytes, zip |-> <<>>]

Signature == <<80, 75, 3, 4>>

\* version, flags, compression method, mod time, mod date: the 10 bytes
\* between the signature and the CRC field of a local file header
HeaderFields == <<51, 0, 1, 0, 99, 0, 0, 0, 33, 0>>

LocalHeader(crc) == Signature \o HeaderFields \o ToBytesLittle(crc)

\* pyzipper.AESZipFile(output_file, 'w', ZIP_STORED, WZ_AES); setpassword;
\* write(file_path, arcname): one stored entry, the CRC field of its local
\* header the library's own CRC-32 of the plain content
AESZipFile_write(arcname, password, src) ==
    [bytes |-> LocalHeader(zlib_crc32(src.bytes, Zero32)) \o src.bytes,
     zip   |-> <<[name |-> arcname, key |-> password, file |-> src]>>]

\* AESZipFile(zip_file_path, 'r'): a file that is no archive cannot be opened
AESZipFile_opens(f) == f.zip # <<>>

\* extractall: every entry decrypts under the password
AESZipFile_decrypts(f, password) == \A i \in 1..Len(f.zip) : f.zip[i].key = password

RECURSIVE ExtractAll(_, _, _, _)
ExtractAll(F, entries, i, d) ==
    IF i > Len(entries) THEN F
    ELSE ExtractAll((join(d, entries[i].name) :> entries[i].file) @@ F, entries, i + 1, d)

\* the file system with p written / removed
WriteFile(F, p, f) == (p :> f) @@ F
RemoveFile(F, p) == [q \in DOMAIN F \ {p} |-> F[q]]

(***************************************************************************)
(* passwordcrc-decrypt.py: calculate_crc32_from_zip.                       *)
(* The result is [none |-> TRUE] for None, else the value read.            *)
(***************************************************************************)
None == [none |-> TRUE, value |-> Zero32]
Some(v) == [none |-> FALSE, value |-> v]

SkipBytes == 10

\* the reader taking the four bytes most significant first
calculate_crc32_from_zip_big_endian(f, fault) ==
    IF fault = "read" THEN None
    ELSE LET signature == SubSeq(f.bytes, 1, Min(4, Len(f.bytes)))
             pos == 4 + SkipBytes
             b == SubSeq(f.bytes, pos + 1, Min(pos + 4, Len(f.bytes)))
         IN  IF signature # Signature THEN None
             ELSE Some(FromBytesLittle(<<ByteAt(b, 4), ByteAt(b, 3), ByteAt(b, 2), ByteAt(b, 1)>>))

\* the reader without the check of the signature
calculate_crc32_from_zip_unchecked(f, fault) ==
    IF fault = "read" THEN None
    ELSE LET pos == 4 + SkipBytes
         IN  Some(FromBytesLittle(SubSeq(f.bytes, pos + 1, Min(pos + 4, Len(f.bytes)))))

calculate_crc32_from_zip(f, fault) ==
    IF fault = "read" THEN None
    ELSE LET signature == SubSeq(f.bytes, 1, Min(4, Len(f.bytes)))
             pos == 4 + SkipBytes
         IN  IF signature # Signature THEN None
             ELSE Some(FromBytesLittle(SubSeq(f.bytes, pos + 1, Min(pos + 4, Len(f.bytes)))))

\* if not crc32_value
IsNone_falsy(r) == r.none \/ r.value = Zero32

\* if crc32_value is None
IsNone(r) == r.none

(***************************************************************************)
(* Faults of the environment during one target: the source cannot be read, *)
(* the archive cannot be opened for writing, the write fails half way      *)
(* (the truncated file stays), the extraction fails, os.remove fails.      *)
(***************************************************************************)
Faults == {"none", "read", "open_w", "write", "extract", "remove"}

\* what a call hands back: raised, or the returned values, and the disk after it
Raised(F, D, p) ==
    [raised |-> TRUE, fs |-> F, dirs |-> D, output_file |-> p, crc32_value |-> Zero32]

Returned(F, D, p, crc) ==
    [raised |-> FALSE, fs |-> F, dirs |-> D, output_file |-> p, crc32_value |-> crc]

(***************************************************************************)
(* passwordcrc-batch.py: create_encrypted_zip                              *)
(***************************************************************************)
create_encrypted_zip(F, D, file_path, out, fault) ==
    LET src         == F[file_path]
        crc32_value == calculate_crc32(src.bytes)
        password    == Encode(format_08x(crc32_value))
        file_name   == basename(file_path)
        odir        == IF out = NoArg THEN dirname(file_path) ELSE out
        D1          == IF out = NoArg THEN D ELSE D \cup Prefixes(out)
        output_file == join(odir, ZipName(file_name))
    IN  IF fault = "read" THEN Raised(F, D, file_path)
        ELSE IF out # NoArg /\ MakedirsFails(D, out) THEN Raised(F, D, file_path)
        ELSE IF fault = "open_w" THEN Raised(F, D1, file_path)
        ELSE IF fault = "write"
             THEN Raised(WriteFile(F, output_file, PlainFile(<<>>)), D1, file_path)
        ELSE Returned(WriteFile(F, output_file, AESZipFile_write(file_name, password, src)),
                      D1, output_file, crc32_value)

(***************************************************************************)
(* passwordcrc-date.py: create_encrypted_zip                               *)
(***************************************************************************)
create_encrypted_zip_date(F, D, file_path, out, now, fault) ==
    LET src             == F[file_path]
        crc32_value     == calculate_crc32(src.bytes)
        password        == Encode(format_08x(crc32_value))
        file_name       == basename(file_path)
        odir            == IF out = NoArg THEN dirname(file_path) ELSE out
        timestamp       == strftime(now)
        full_output_dir == odir \o <<timestamp>>
        D1              == D \cup Prefixes(full_output_dir)
        output_file     == join(full_output_dir, ZipName(file_name))
    IN  IF fault = "read" THEN Raised(F, D, file_path)
        ELSE IF MakedirsFails(D, full_output_dir) THEN Raised(F, D, file_path)
        ELSE IF fault = "open_w" THEN Raised(F, D1, file_path)
        ELSE IF fault = "write"
             THEN Raised(WriteFile(F, output_file, PlainFile(<<>>)), D1, file_path)
        ELSE Returned(WriteFile(F, output_file, AESZipFile_write(file_name, password, src)),
                      D1, output_file, crc32_value)

(***************************************************************************)
(* passwordcrc-decrypt.py: extract_encrypted_zip                           *)
(* result: raised (an exception left the function), ret (True / False),    *)
(* the disk after it, the checksum read, whether the source was removed.   *)
(***************************************************************************)
ExtractResult(raised, r, F, D, crc, removed) ==
    [raised |-> raised, ret |-> r, fs |-> F, dirs |-> D, crc |-> crc, removed |-> removed]

extract_encrypted_zip(F, D, zip_file_path, out, del, fault) ==
    LET f           == F[zip_file_path]
        crc32_value == calculate_crc32_from_zip(f, fault)
        password    == Encode(format_08x(crc32_value.value))
        odir        == IF out = NoArg THEN dirname(zip_file_path) ELSE out
        D1          == IF out = NoArg THEN D ELSE D \cup Prefixes(out)
        F1          == ExtractAll(F, f.zip, 1, odir)
    IN  IF IsNone(crc32_value) THEN ExtractResult(FALSE, FALSE, F, D, crc32_value, FALSE)
        ELSE IF out # NoArg /\ MakedirsFails(D, out)
             THEN ExtractResult(TRUE, FALSE, F, D, crc32_value, FALSE)
        ELSE IF fault = "extract" \/ ~AESZipFile_opens(f) \/ ~AESZipFile_decrypts(f, password)
             THEN ExtractResult(FALSE, FALSE, F, D1, crc32_value, FALSE)
        ELSE IF del /\ fault # "remove"
             THEN ExtractResult(FALSE, TRUE, RemoveFile(F1, zip_file_path), D1, crc32_value, TRUE)
        ELSE ExtractResult(FALSE, TRUE, F1, D1, crc32_value, FALSE)

(***************************************************************************)
(* The body of the loop of process_files, for one target.  entry is what   *)
(* the loop reported: the target, the outcome, the archive written, the    *)
(* password line printed, whether the source was removed, and the source   *)
(* as it was when the target was taken up.                                 *)
(***************************************************************************)
NoFile == PlainFile(<<>>)

Entry(t, o, out, crc, rm, src) ==
    [target |-> t, outcome |-> o, output_file |-> out, crc |-> crc,
     password |-> IF o = "ok" THEN format_08x(crc.value) ELSE <<>>,
     removed |-> rm, src |-> src]

Done(F, D, raised, e) == [fs |-> F, dirs |-> D, raised |-> raised, entry |-> e]

\* process_files with os.remove moved out of the try block: the source goes
\* whenever the flag is set, whether or not the archive was written
Encrypted_remove_always(F, file_path, del, fault, r) ==
    Done(IF del THEN RemoveFile(r.fs, file_path) ELSE r.fs, r.dirs, FALSE,
         Entry(file_path, IF r.raised THEN "error" ELSE "ok", r.output_file,
               IF r.raised THEN None ELSE Some(r.crc32_value), del, F[file_path]))

\* passwordcrc-batch.py, process_files: the try block, r what
\* create_encrypted_zip handed back
Encrypted(F, file_path, del, fault, r) ==
    IF r.raised
    THEN Done(r.fs, r.dirs, FALSE,
              Entry(file_path, "error", file_path, None, FALSE, F[file_path]))
    ELSE IF del /\ fault # "remove"
    THEN Done(RemoveFile(r.fs, file_path), r.dirs, FALSE,
              Entry(file_path, "ok", r.output_file, Some(r.crc32_value), TRUE, F[file_path]))
    ELSE Done(r.fs, r.dirs, FALSE,
              Entry(file_path, "ok", r.output_file, Some(r.crc32_value), FALSE, F[file_path]))

\* passwordcrc-batch.py, process_files
process_file_batch(F, D, file_path, out, del, fault) ==
    IF ~isfile(F, file_path)
    THEN Done(F, D, FALSE, Entry(file_path, "missing", file_path, None, FALSE, NoFile))
    ELSE Encrypted(F, file_path, del, fault,
                   create_encrypted_zip(F, D, file_path, out, fault))

\* passwordcrc-date.py, process_files (it has no delete_original)
process_file_date(F, D, file_path, out, now, fault) ==
    IF ~isfile(F, file_path)
    THEN Done(F, D, FALSE, Entry(file_path, "missing", file_path, None, FALSE, NoFile))
    ELSE Encrypted(F, file_path, FALSE, fault,
                   create_encrypted_zip_date(F, D, file_path, out, now, fault))

\* passwordcrc-decrypt.py, process_files: the call of extract_encrypted_zip,
\* r what it handed back (an exception that leaves it leaves process_files)
Extracted(F, file_path, odir, r) ==
    Done(r.fs, r.dirs, r.raised,
         Entry(file_path,
               IF r.raised THEN "raised" ELSE IF r.ret THEN "ok" ELSE "failed",
               join(odir, <<>>), r.crc, r.removed, F[file_path]))

\* passwordcrc-decrypt.py, process_files
process_file_decrypt(F, D, file_path, out, del, fault) ==
    IF ~isfile(F, file_path)
    THEN Done(F, D, FALSE, Entry(file_path, "missing", file_path, None, FALSE, NoFile))
    ELSE IF ~EndsWithZip(file_path)
    THEN Done(F, D, FALSE, Entry(file_path, "notzip", file_path, None, FALSE, F[file_path]))
    ELSE Extracted(F, file_path, IF out = NoArg THEN dirname(file_path) ELSE out,
                   extract_encrypted_zip(F, D, file_path, out, del, fault))

(***************************************************************************)
(* main(): the command line, the interactive loops, process_directory.     *)
(***************************************************************************)
Args(d, f, o, del) == [directory |-> d, files |-> f, output |-> o, delete |-> del]

\* all orders in which os.listdir may hand back the members of S
Perms(S) ==
    {s \in [1..Cardinality(S) -> S] : \A i, j \in 1..Cardinality(S) : s[i] = s[j] => i = j}

\* process_directory: the lists it may pass to process_files (the empty list
\* when it returns without calling it)
process_directory(F, D, t, directory_path) ==
    IF ~isdir(D, directory_path) THEN {<<>>}
    ELSE Perms({p \in DOMAIN F :
                   /\ dirname(p) = directory_path
                   /\ (t = "decrypt" => EndsWithZip(p))})

\* main() falling into the menu whatever the command line held
AfterProcessFiles_menu(t, a) == IF t = "date" THEN "loop" ELSE "menu"

\* where main() goes on when process_files has returned
AfterProcessFiles(t, a) ==
    IF t = "date" THEN "loop"
    ELSE IF a.directory # NoArg \/ a.files # NoArg THEN "exit0"
    ELSE "menu"

Call(paths, out, del) ==
    /\ file_paths' = paths
    /\ idx' = 1
    /\ call' = call + 1
    /\ output_dir' = out
    /\ delete_original' = del
    /\ pc' = "process_files"

\* passwordcrc-batch.py / passwordcrc-decrypt.py, main: the command line
MainArgs(t, a) ==
    /\ pc = "main"
    /\ tool' = t
    /\ argv' = a
    /\ args' = a
    /\ IF a.directory # NoArg
       THEN \E paths \in process_directory(fs, dirs, t, a.directory) :
                Call(paths, a.output, a.delete)
       ELSE IF a.files # NoArg
       THEN Call(a.files, a.output, a.delete)
       ELSE /\ pc' = "menu"
            /\ UNCHANGED <<file_paths, idx, call, output_dir, delete_original>>
    /\ UNCHANGED <<fs, dirs, clock, inputs, log, arg, ret>>

MainBatch(a) == MainArgs("batch", a)

MainDecrypt(a) == MainArgs("decrypt", a)

\* passwordcrc-date.py, main: up to the while True
MainDate(a) ==
    /\ pc = "main"
    /\ tool' = "date"
    /\ argv' = a
    /\ args' = a
    /\ pc' = "loop"
    /\ UNCHANGED <<fs, dirs, clock, file_paths, idx, call, output_dir, delete_original,
                   inputs, log, arg, ret>>

\* passwordcrc-date.py, main: the top of the while True
DateLoop ==
    /\ tool = "date"
    /\ pc = "loop"
    /\ IF args.files # NoArg
       THEN /\ Call(args.files, args.output, FALSE)
            /\ args' = [args EXCEPT !.files = NoArg]
       ELSE /\ pc' = "input"
            /\ UNCHANGED <<args, file_paths, idx, call, output_dir, delete_original>>
    /\ UNCHANGED <<fs, dirs, clock, tool, argv, inputs, log, arg, ret>>

\* passwordcrc-date.py, main: a line is typed
DateInput(paths) ==
    /\ tool = "date"
    /\ pc = "input"
    /\ inputs < MaxInputs
    /\ inputs' = inputs + 1
    /\ IF paths = <<>>
       THEN /\ pc' = "loop"
            /\ UNCHANGED <<file_paths, idx, call, output_dir, delete_original>>
       ELSE Call(paths, args.output, FALSE)
    /\ UNCHANGED <<fs, dirs, clock, tool, argv, args, log, arg, ret>>

\* passwordcrc-batch.py / passwordcrc-decrypt.py, main: one round of the menu
Menu(choice, a) ==
    /\ tool \in {"batch", "decrypt"}
    /\ pc = "menu"
    /\ inputs < MaxInputs
    /\ inputs' = inputs + 1
    /\ CASE choice = "1" ->
              IF tool = "batch" /\ a.directory = NoArg
              THEN UNCHANGED <<pc, file_paths, idx, call, output_dir, delete_original>>
              ELSE \E paths \in process_directory(fs, dirs, tool, a.directory) :
                       Call(paths, a.output, a.delete)
         [] choice = "2" ->
              IF tool = "batch" /\ a.files = NoArg
              THEN UNCHANGED <<pc, file_paths, idx, call, output_dir, delete_original>>
              ELSE Call(a.files, a.output, a.delete)
         [] choice = "3" ->
              /\ pc' = "exit0"
              /\ UNCHANGED <<file_paths, idx, call, output_dir, delete_original>>
         [] OTHER -> UNCHANGED <<pc, file_paths, idx, call, output_dir, delete_original>>
    /\ UNCHANGED <<fs, dirs, clock, tool, argv, args, log, arg, ret>>

(***************************************************************************)
(* process_files: one iteration of the loop, and the return.               *)
(***************************************************************************)
\* the record kept of one iteration: the tool, the call and the fault met
Logged(e, fault) == [tool |-> tool, call |-> call, fault |-> fault] @@ e

Looping(t) == tool = t /\ pc = "process_files" /\ idx <= Len(file_paths)

\* the iteration whose result is r has been made
Iterated(r, fault) ==
    /\ fs' = r.fs
    /\ dirs' = r.dirs
    /\ log' = Append(log, Logged(r.entry, fault))
    /\ pc' = IF r.raised THEN "crash" ELSE pc
    /\ idx' = idx + 1
    /\ UNCHANGED <<clock, tool, argv, args, file_paths, call, output_dir,
                   delete_original, inputs, arg, ret>>

StepBatch(fault) ==
    /\ Looping("batch")
    /\ Iterated(process_file_batch(fs, dirs, file_paths[idx], output_dir,
                                   delete_original, fault), fault)

StepDate(fault) ==
    /\ Looping("date")
    /\ Iterated(process_file_date(fs, dirs, file_paths[idx], output_dir, clock, fault),
                fault)

\* an exception that leaves extract_encrypted_zip leaves process_files and main
StepDecrypt(fault) ==
    /\ Looping("decrypt")
    /\ Iterated(process_file_decrypt(fs, dirs, file_paths[idx], output_dir,
                                     delete_original, fault), fault)

Return ==
    /\ pc = "process_files"
    /\ idx > Len(file_paths)
    /\ pc' = AfterProcessFiles(tool, args)
    /\ UNCHANGED <<fs, dirs, clock, tool, argv, args, file_paths, idx, call, output_dir,
                   delete_original, inputs, log, arg, ret>>

\* a second passes while the date tool works through its list
Tick ==
    /\ Looping("date")
    /\ clock < MaxClock
    /\ clock' = clock + 1
    /\ UNCHANGED <<fs, dirs, tool, pc, argv, args, file_paths, idx, call, output_dir,
                   delete_original, inputs, log, arg, ret>>

(***************************************************************************)
(* The disk the tools are started on, and what they are started with.      *)
(***************************************************************************)
Hello == <<104, 101, 108, 108, 111>>

D1 == <<"d1">>
D2 == <<"d2">>
Out == <<"out">>
ReadOnly == <<"ro", "x">>

ATxt == <<"a", "txt">>
BTxt == <<"b", "txt">>

\* the archive the batch tool wrote of a file of that name and content
ArchiveOf(n, bytes) ==
    AESZipFile_write(n, Encode(format_08x(calculate_crc32(bytes))), PlainFile(bytes))

Disk0 ==
    (join(D1, ATxt) :> PlainFile(Hello))
    @@ (join(D2, ATxt) :> PlainFile(<<1>>))
    @@ (join(D1, ZipName(ATxt)) :> ArchiveOf(ATxt, <<2>>))
    @@ (join(D2, ZipName(BTxt)) :> ArchiveOf(BTxt, <<>>))
    @@ (join(D1, <<"bad", "zip">>) :> PlainFile(<<1, 2>>))

EncryptTargets == {join(D1, ATxt), join(D2, ATxt), join(D1, ZipName(ATxt)),
                   join(D1, <<"gone", "txt">>)}

DecryptTargets == {join(D1, ZipName(ATxt)), join(D2, ZipName(BTxt)),
                   join(D1, <<"bad", "zip">>), join(D1, <<"gone", "zip">>)}

\* the lists of 1..n different members of S
Lists(S, n) ==
    UNION {{s \in [1..k -> S] : \A i, j \in 1..k : s[i] = s[j] => i = j} : k \in 1..n}

OutputDirs == {NoArg, Out, ReadOnly}

NoArgs == Args(NoArg, NoArg, NoArg, FALSE)

CommandLines(T) ==
    {Args(NoArg, f, o, del) : f \in Lists(T, MaxTargets), o \in OutputDirs, del \in BOOLEAN}
    \cup {Args(d, NoArg, o, del) : d \in {D1, D2, Out}, o \in OutputDirs, del \in BOOLEAN}
    \cup {NoArgs}

\* the date tool has no -d and no --delete
DateTargets == {join(D1, ATxt), join(D2, ATxt), join(D1, <<"gone", "txt">>)}

DateCommandLines ==
    {Args(NoArg, f, o, FALSE) : f \in Lists(DateTargets, MaxTargets), o \in {NoArg, Out}}
    \cup {NoArgs}

\* what is typed into a menu round
Typed(T) ==
    {Args(d, f, o, del) : d \in {NoArg, D1}, f \in {NoArg} \cup Lists(T, 1),
                          o \in {NoArg, Out}, del \in BOOLEAN}

BatchCommandLines == CommandLines(EncryptTargets)

DecryptCommandLines == CommandLines(DecryptTargets)

MenuLines == Typed(EncryptTargets \cup DecryptTargets)

Init ==
    /\ fs = Disk0
    /\ dirs = {D1, D2}
    /\ clock = 0
    /\ tool = "none"
    /\ pc = "main"
    /\ argv = NoArgs
    /\ args = NoArgs
    /\ file_paths = <<>>
    /\ idx = 1
    /\ call = 0
    /\ output_dir = NoArg
    /\ delete_original = FALSE
    /\ inputs = 0
    /\ log = <<>>
    /\ arg = <<>>
    /\ ret = <<>>

Next ==
    \/ \E a \in BatchCommandLines : MainBatch(a)
    \/ \E a \in DecryptCommandLines : MainDecrypt(a)
    \/ \E a \in DateCommandLines : MainDate(a)
    \/ DateLoop
    \/ \E paths \in {<<>>, <<join(D1, ATxt)>>} : DateInput(paths)
    \/ \E choice \in {"1", "2", "3", "x"}, a \in MenuLines : Menu(choice, a)
    \/ \E fault \in {"none", "write", "remove"} : StepBatch(fault)
    \/ \E fault \in {"none", "read"} : StepDate(fault)
    \/ \E fault \in {"none", "extract", "remove"} : StepDecrypt(fault)
    \/ Return
    \/ Tick

Spec == Init /\ [][Next]_vars

(***************************************************************************)
(* The same program with its own steps taken whenever they can be: the     *)
(* interpreter does not stop between statements.  What is typed at a       *)
(* prompt, and the passing of time, stay the environment's choice.         *)
(* An iteration of process_files can be taken exactly when Iterating       *)
(* holds (StepBatch, StepDate and StepDecrypt have a result for every      *)
(* target and every fault) and is the only step that advances idx, so the  *)
(* last conjunct is weak fairness of the iteration, written out.           *)
(***************************************************************************)
Iterating == pc = "process_files" /\ idx <= Len(file_paths)

Iteration == Iterating /\ idx' = idx + 1

FairSpec ==
    /\ Spec
    /\ WF_vars(DateLoop)
    /\ WF_vars(Return)
    /\ ([]<>~Iterating \/ []<><<Iteration>>_vars)

(***************************************************************************)
(* Round trips.  One file, of any of the contents below, is on the disk;   *)
(* the batch tool is run on it once, and then the decrypt tool is run on   *)
(* a file of the disk: the archive just written, or the file itself.       *)
(***************************************************************************)
RECURSIVE SeqsUpTo(_, _)
SeqsUpTo(S, n) ==
    IF n = 0 THEN {<<>>}
    ELSE LET shorter == SeqsUpTo(S, n - 1)
         IN  shorter \cup {Append(s, x) : s \in shorter, x \in S}

\* a content whose CRC-32 is 0
Crc0 == <<157, 10, 217, 109>>

Contents ==
    SeqsUpTo({0, 80}, MaxLen)
    \cup {Hello, Crc0, Signature, <<80, 75, 3>>, <<80, 75, 3, 5>>,
          <<75, 80, 3, 4>> \o HeaderFields \o <<1, 2, 3, 4>>,
          Signature \o HeaderFields \o <<0, 0, 0, 0>>}

FZip == <<"f", "zip">>

RTInit ==
    /\ fs \in {(join(D1, n) :> PlainFile(b)) : n \in {ATxt, FZip}, b \in Contents}
    /\ dirs = {D1}
    /\ clock = 0
    /\ tool = "none"
    /\ pc = "main"
    /\ argv = NoArgs
    /\ args = NoArgs
    /\ file_paths = <<>>
    /\ idx = 1
    /\ call = 0
    /\ output_dir = NoArg
    /\ delete_original = FALSE
    /\ inputs = 0
    /\ log = <<>>
    /\ arg = <<>>
    /\ ret = <<>>

\* -f with one of the files of the disk
OneFile(F) ==
    {Args(NoArg, <<p>>, o, del) : p \in DOMAIN F, o \in {NoArg, Out}, del \in BOOLEAN}

\* the batch tool is started first
RTBatch == log = <<>> /\ \E a \in OneFile(fs) : MainBatch(a)

RTDecrypt == \E a \in OneFile(fs) : MainDecrypt(a)

\* the batch tool has ended; the next tool is started
Again ==
    /\ tool = "batch"
    /\ pc = "exit0"
    /\ pc' = "main"
    /\ UNCHANGED <<fs, dirs, clock, tool, argv, args, file_paths, idx, call, output_dir,
                   delete_original, inputs, log, arg, ret>>

RTNext ==
    \/ RTBatch
    \/ RTDecrypt
    \/ \E fault \in {"none", "write", "remove"} : StepBatch(fault)
    \/ \E fault \in {"none", "read", "extract", "remove"} : StepDecrypt(fault)
    \/ Return
    \/ Again

RTSpec == RTInit /\ [][RTNext]_vars

(***************************************************************************)
(* The password, derived from one checksum in each of the places that      *)
(* derive it: arg is the checksum, ret the password each place has made.   *)
(***************************************************************************)
PwdBytes == {0, 10, 171, 255}

Checksums == {FromBytesLittle(bs) : bs \in [1..4 -> PwdBytes]}

NoPasswords == [writer |-> <<>>, date_writer |-> <<>>, extractor |-> <<>>, reported |-> <<>>]

PwdInit ==
    /\ arg \in Checksums
    /\ ret = NoPasswords
    /\ fs = Disk0
    /\ dirs = {D1, D2}
    /\ clock = 0
    /\ tool = "none"
    /\ pc = "main"
    /\ argv = NoArgs
    /\ args = NoArgs
    /\ file_paths = <<>>
    /\ idx = 1
    /\ call = 0
    /\ output_dir = NoArg
    /\ delete_original = FALSE
    /\ inputs = 0
    /\ log = <<>>

Derive(place, password) ==
    /\ ret[place] = <<>>
    /\ ret' = [ret EXCEPT ![place] = password]
    /\ UNCHANGED <<fs, dirs, clock, tool, pc, argv, args, file_paths, idx, call, output_dir,
                   delete_original, inputs, log, arg>>

\* passwordcrc-batch.py, create_encrypted_zip: format(crc32_value, '08x').encode()
WriterPassword == Derive("writer", Encode(format_08x(arg)))

\* passwordcrc-date.py, create_encrypted_zip
DateWriterPassword == Derive("date_writer", Encode(format_08x(arg)))

\* passwordcrc-decrypt.py, extract_encrypted_zip
ExtractorPassword == Derive("extractor", Encode(format_08x(arg)))

\* process_files: the line that reports the password
ReportedPassword == Derive("reported", format_08x(arg))

PwdNext == WriterPassword \/ DateWriterPassword \/ ExtractorPassword \/ ReportedPassword

PwdSpec == PwdInit /\ [][PwdNext]_vars

(***************************************************************************)
(* calculate_crc32 on its own: arg is the content of the file and the      *)
(* size of the chunks it is read in, ret the values the calls returned.    *)
(***************************************************************************)
Digits9 == <<49, 50, 51, 52, 53, 54, 55, 56, 57>>

CrcInputs ==
    {[bytes |-> b, k |-> k] :
        b \in SeqsUpTo({0, 49, 255}, MaxLen) \cup {Hello, Digits9, Crc0},
        k \in 1..MaxChunk \cup {ChunkSize}}

CrcInit ==
    /\ arg \in CrcInputs
    /\ ret = <<>>
    /\ fs = Disk0
    /\ dirs = {D1, D2}
    /\ clock = 0
    /\ tool = "none"
    /\ pc = "main"
    /\ argv = NoArgs
    /\ args = NoArgs
    /\ file_paths = <<>>
    /\ idx = 1
    /\ call = 0
    /\ output_dir = NoArg
    /\ delete_original = FALSE
    /\ inputs = 0
    /\ log = <<>>

MaxCalls == 2

\* a call of calculate_crc32 reading chunks of arg.k bytes
Calculate ==
    /\ Len(ret) < MaxCalls
    /\ ret' = Append(ret, calculate_crc32_chunked(arg.bytes, arg.k))
    /\ UNCHANGED <<fs, dirs, clock, tool, pc, argv, args, file_paths, idx, call, output_dir,
                   delete_original, inputs, log, arg>>

CrcNext == Calculate

CrcSpec == CrcInit /\ [][CrcNext]_vars

(***************************************************************************)
(* What the properties below read off a state.                             *)
(***************************************************************************)
Last(s) == s[Len(s)]

IsCurrentCall(e) == e.call = call

\* the iterations of the call of process_files in progress, or last made
CallLog == SelectSeq(log, IsCurrentCall)

Targets(s) == [i \in 1..Len(s) |-> s[i].target]

\* the targets came with the command line (-f, or -d where the tool has it)
HasTargets == argv.directory # NoArg \/ argv.files # NoArg

\* the content src can be had from the archive f, or from one packed in it
RECURSIVE Holds(_, _)
Holds(f, src) ==
    \E i \in DOMAIN f.zip : f.zip[i].file = src \/ Holds(f.zip[i].file, src)

Recoverable(F, src) == \E p \in DOMAIN F : Holds(F[p], src)

Failed(e) == e.outcome \in {"error", "failed", "raised"}

\* what a successful iteration produced is on the disk F
ProductKept(F, e) ==
    IF e.tool = "decrypt"
    THEN \A i \in DOMAIN e.src.zip :
             /\ join(e.output_file.dir, e.src.zip[i].name) \in DOMAIN F
             /\ F[join(e.output_file.dir, e.src.zip[i].name)] = e.src.zip[i].file
    ELSE /\ e.output_file \in DOMAIN F
         /\ Holds(F[e.output_file], e.src)

(***************************************************************************)
(* C2, as stated: every target of a list given to process_files is         *)
(* attempted once, in list order, in all three tools; no failure on one    *)
(* target keeps a later target from being attempted.  While the loop runs  *)
(* the targets attempted are the first idx - 1 of the list, and once the   *)
(* call is over they are the whole list.                                   *)
(***************************************************************************)
C2_EveryTargetAttempted ==
    /\ pc = "process_files" => Targets(CallLog) = SubSeq(file_paths, 1, idx - 1)
    /\ (call > 0 /\ pc # "process_files") => Targets(CallLog) = file_paths

(***************************************************************************)
(* C3: in the encrypt and in the decrypt batch a source is removed only    *)
(* when the delete flag is set and the operation on it has succeeded; a    *)
(* failed operation leaves the source as it was; a removal that fails      *)
(* leaves the operation reported as successful, its product on the disk,   *)
(* the source in place (the disk is the one a run without the flag would   *)
(* have left), and the loop goes on with the next target.                  *)
(***************************************************************************)
DeletionSafe(e) ==
    /\ e.removed => delete_original /\ e.outcome = "ok"
    /\ e.target \in DOMAIN fs =>
          /\ e.removed <=> e.target \notin DOMAIN fs'
          /\ Failed(e) => e.target \in DOMAIN fs' /\ fs'[e.target] = fs[e.target]
    /\ (e.outcome = "ok" /\ delete_original /\ e.fault = "remove") =>
          /\ ~e.removed
          /\ e.target \in DOMAIN fs'
          /\ ProductKept(fs', e)
          /\ pc' = "process_files" /\ idx' = idx + 1
    /\ (e.tool = "batch" /\ e.fault = "remove") =>
          /\ fs' = process_file_batch(fs, dirs, e.target, output_dir, FALSE, "none").fs
          /\ e.outcome =
                process_file_batch(fs, dirs, e.target, output_dir, FALSE, "none").entry.outcome
    /\ (e.tool = "decrypt" /\ e.fault = "remove") =>
          /\ fs' = process_file_decrypt(fs, dirs, e.target, output_dir, FALSE, "none").fs
          /\ e.outcome =
                process_file_decrypt(fs, dirs, e.target, output_dir, FALSE, "none").entry.outcome

C3_DeletionSafety ==
    [][(log' # log /\ tool \in {"batch", "decrypt"}) => DeletionSafe(Last(log'))]_vars

\* a removal has failed after a successful operation, and one has succeeded
C3_Witness ==
    /\ \E i \in DOMAIN log :
          /\ log[i].fault = "remove" /\ log[i].outcome = "ok" /\ ~log[i].removed
          /\ delete_original
          /\ log[i].target \in DOMAIN fs
    /\ \E i \in DOMAIN log : log[i].removed /\ log[i].target \notin DOMAIN fs

(***************************************************************************)
(* C8, as stated: a tool started with targets on its command line never    *)
(* waits for input (it ends with exit code 0).                             *)
(***************************************************************************)
C8_NeverWaitsForInput == HasTargets => pc \notin {"menu", "input"}

(***************************************************************************)
(* C8, amended: started with targets on the command line, the batch tool   *)
(* and the decrypt tool never enter the menu; the batch tool attempts the  *)
(* targets and ends with exit code 0; the decrypt tool ends with exit code *)
(* 0 or by the exception that left process_files; the date tool attempts   *)
(* the targets once, then waits for input, and never ends.                 *)
(***************************************************************************)
C8_Completion ==
    /\ [](HasTargets /\ tool \in {"batch", "decrypt"} => pc \notin {"menu", "input"})
    /\ []((HasTargets /\ pc = "exit0") =>
              call = 1 /\ Targets(log) = file_paths)
    /\ [](tool = "date" => pc \notin {"exit0", "crash", "menu"})
    /\ [](tool = "batch" => pc # "crash")
    /\ (HasTargets /\ tool = "batch") ~> (pc = "exit0")
    /\ (HasTargets /\ tool = "decrypt") ~> (pc \in {"exit0", "crash"})
    /\ (HasTargets /\ tool = "date") ~>
          (pc = "input" /\ call >= 1 /\ SubSeq(Targets(log), 1, Len(argv.files)) = argv.files)

\* the date tool, started with -f, has attempted its targets and waits for input
C8_Witness ==
    /\ tool = "date" /\ HasTargets
    /\ pc = "input"
    /\ inputs = 0
    /\ Len(log) >= 2
    /\ Targets(log) = argv.files

(***************************************************************************)
(* C9, as stated: at the end of an encrypt batch every source reported as  *)
(* encrypted in it, deleted or not, has its content in an archive on the   *)
(* disk.                                                                   *)
(***************************************************************************)
C9_NoSourceLost ==
    (tool \in {"batch", "date"} /\ pc # "process_files") =>
        \A i \in DOMAIN CallLog :
            CallLog[i].outcome = "ok" => Recoverable(fs, CallLog[i].src)

(***************************************************************************)
(* C10, as stated: the archives the date tool produces in one call of      *)
(* process_files with an output directory are all in one and the same      *)
(* timestamped subdirectory of it.                                         *)
(***************************************************************************)
C10_OneDirectoryPerRun ==
    (tool = "date" /\ output_dir # NoArg) =>
        \A i, j \in DOMAIN CallLog :
            (CallLog[i].outcome = "ok" /\ CallLog[j].outcome = "ok") =>
                CallLog[i].output_file.dir = CallLog[j].output_file.dir

(***************************************************************************)
(* What the properties of the header reader and of the password read.      *)
(***************************************************************************)
\* the first four bytes are 50 4B 03 04
HasSignature(b) == Len(b) >= 4 /\ b[1] = 80 /\ b[2] = 75 /\ b[3] = 3 /\ b[4] = 4

\* the four bytes at offset 14 are there and are 0
StoredZero(b) ==
    HasSignature(b) /\ Len(b) >= 18 /\ b[15] = 0 /\ b[16] = 0 /\ b[17] = 0 /\ b[18] = 0

Zeros8 == <<"0", "0", "0", "0", "0", "0", "0", "0">>

HexSet == {"0", "1", "2", "3", "4", "5", "6", "7", "8", "9", "a", "b", "c", "d", "e", "f"}

DigitValue(ch) == (CHOOSE i \in 1..16 : HexChars[i] = ch) - 1

\* int(chars, 16) of eight hex digits, as the 32 bits, least significant first
ParseHex(chars) ==
    [j \in 1..Width |->
        (DigitValue(chars[8 - ((j - 1) \div 4)]) \div Pow2((j - 1) % 4)) % 2]

\* bytes.decode(): the characters of the ASCII codes
CharOf(code) ==
    IF code \in 48..57 THEN HexChars[code - 47]
    ELSE IF code \in 97..102 THEN HexChars[code - 86]
    ELSE "?"

Decode(bs) == [i \in 1..Len(bs) |-> CharOf(bs[i])]

(***************************************************************************)
(* C1: when create_encrypted_zip has succeeded on a file, of any content,  *)
(* the header reader returns from the archive the very value               *)
(* calculate_crc32 returned for the file, the extractor derives the        *)
(* password the writer used and succeeds, and the entry extracted under    *)
(* the file's base name has the file's bytes.                              *)
(***************************************************************************)
RoundTrip(e, d) ==
    /\ d.fault # "read" => ~IsNone(d.crc) /\ d.crc = e.crc
    /\ d.fault \in {"none", "remove"} =>
          /\ d.outcome = "ok"
          /\ d.password = e.password
          /\ join(d.output_file.dir, basename(e.target)) \in DOMAIN fs'
          /\ fs'[join(d.output_file.dir, basename(e.target))] = e.src
          /\ fs'[join(d.output_file.dir, basename(e.target))].bytes = e.src.bytes

C1_RoundTrip ==
    [][(log' # log /\ Last(log').tool = "decrypt" /\ Last(log').outcome # "missing") =>
          \A i \in DOMAIN log :
              (/\ log[i].tool = "batch"
               /\ log[i].outcome = "ok"
               /\ log[i].output_file = Last(log').target) => RoundTrip(log[i], Last(log'))]_vars

\* a file whose CRC-32 is 0, and is not empty, has gone round
C1_Witness ==
    \E i, j \in DOMAIN log :
        /\ i < j
        /\ log[i].tool = "batch" /\ log[i].outcome = "ok" /\ log[i].removed
        /\ log[i].src.bytes = Crc0
        /\ log[j].tool = "decrypt" /\ log[j].outcome = "ok"
        /\ log[j].target = log[i].output_file
        /\ log[j].crc = log[i].crc
        /\ log[i].target \in DOMAIN fs
        /\ fs[log[i].target].bytes = Crc0

(***************************************************************************)
(* C4: on a file whose first four bytes are not 50 4B 03 04 (a file of     *)
(* fewer than four bytes too) the header reader returns None, and          *)
(* extract_encrypted_zip returns False and leaves the disk as it is: no    *)
(* output directory made, nothing extracted, the source kept whatever the  *)
(* delete flag.                                                            *)
(***************************************************************************)
Rejected(d) ==
    /\ IsNone(d.crc)
    /\ d.outcome = "failed"
    /\ ~d.removed
    /\ fs' = fs
    /\ dirs' = dirs

C4_RejectsNonArchives ==
    [][(/\ log' # log
        /\ Last(log').tool = "decrypt"
        /\ Last(log').outcome \notin {"missing", "notzip"}
        /\ ~HasSignature(Last(log').src.bytes)) => Rejected(Last(log'))]_vars

\* a file one byte off the signature, and one of three bytes, have been
\* rejected with the delete flag set and an output directory yet to be made
C4_Witness ==
    /\ tool = "decrypt" /\ delete_original /\ output_dir = Out
    /\ Out \notin dirs
    /\ \E i \in DOMAIN log :
          /\ log[i].outcome = "failed"
          /\ log[i].src.bytes \in {<<80, 75, 3, 5>>, <<80, 75, 3>>}
          /\ log[i].target \in DOMAIN fs

(***************************************************************************)
(* C5: for an empty file calculate_crc32 returns 0 and the password is     *)
(* 00000000; a stored checksum of 0 read from a header is a checksum, not  *)
(* the reader's failure value: the extraction is attempted with 00000000   *)
(* and succeeds on the archive of a file whose checksum is 0.              *)
(***************************************************************************)
ZeroIsAChecksum(e) ==
    /\ (e.tool = "batch" /\ e.outcome = "ok" /\ e.src.bytes = <<>>) =>
          e.crc = Some(Zero32) /\ e.password = Zeros8
    /\ (/\ e.tool = "decrypt"
        /\ e.outcome \notin {"missing", "notzip"}
        /\ e.fault # "read"
        /\ StoredZero(e.src.bytes)) =>
          /\ e.crc = Some(Zero32)
          /\ (/\ e.fault \in {"none", "remove"}
              /\ e.src.zip # <<>>
              /\ \A k \in DOMAIN e.src.zip : e.src.zip[k].key = Encode(Zeros8)) =>
                 /\ e.outcome = "ok"
                 /\ e.password = Zeros8
                 /\ ProductKept(fs', e)

C5_ZeroChecksum == [][log' # log => ZeroIsAChecksum(Last(log'))]_vars

\* an empty file has been encrypted and its archive decrypted
C5_Witness ==
    \E i, j \in DOMAIN log :
        /\ log[i].tool = "batch" /\ log[i].outcome = "ok" /\ log[i].src.bytes = <<>>
        /\ log[i].password = Zeros8
        /\ log[j].tool = "decrypt" /\ log[j].outcome = "ok"
        /\ log[j].target = log[i].output_file
        /\ log[j].crc = Some(Zero32)
        /\ join(log[j].output_file.dir, basename(log[i].target)) \in DOMAIN fs
        /\ fs[join(log[j].output_file.dir, basename(log[i].target))].bytes = <<>>

(***************************************************************************)
(* C6: the password of a checksum is eight characters, each of 0-9a-f,     *)
(* the hex digits of the checksum, the most significant first, padded with *)
(* zeros on the left; the two writers, the extractor and the reported      *)
(* line derive the same one.  (Read back as a hex number the password is   *)
(* the checksum, so different checksums have different passwords.)         *)
(***************************************************************************)
PasswordOf(chars, v) ==
    /\ Len(chars) = 8
    /\ \A i \in 1..Len(chars) : chars[i] \in HexSet
    /\ Len(chars) = 8 => ParseHex(chars) = v

C6_PasswordFormat ==
    /\ ret.reported # <<>> => PasswordOf(ret.reported, arg)
    /\ \A place \in {"writer", "date_writer", "extractor"} :
          ret[place] # <<>> =>
              /\ PasswordOf(Decode(ret[place]), arg)
              /\ \A i \in 1..Len(ret[place]) : ret[place][i] \in (48..57) \cup (97..102)
              /\ ret.reported # <<>> => Decode(ret[place]) = ret.reported
              /\ ret.writer # <<>> => ret[place] = ret.writer

\* 0x00000aab in all four places
C6_Witness ==
    /\ arg = FromBytesLittle(<<171, 10, 0, 0>>)
    /\ ret.reported = <<"0", "0", "0", "0", "0", "a", "a", "b">>
    /\ ret.writer = <<48, 48, 48, 48, 48, 97, 97, 98>>
    /\ ret.date_writer = ret.writer
    /\ ret.extractor = ret.writer

(***************************************************************************)
(* C7: read in chunks of any size, a content of any length, the empty one  *)
(* and those that are no multiple of the chunk size too, calculate_crc32   *)
(* returns a value of 32 bits, the CRC-32 of the content taken in one      *)
(* piece; a second call returns the same; a call changes nothing else.     *)
(***************************************************************************)
IsValue32(v) == Len(v) = Width /\ \A i \in 1..Len(v) : v[i] \in {0, 1}

ChunkInvariant ==
    \A i \in DOMAIN ret :
        /\ IsValue32(ret[i])
        /\ ret[i] = zlib_crc32(arg.bytes, Zero32)
        /\ ret[i] = ret[1]
        /\ arg.bytes = <<>> => ret[i] = Zero32
        /\ arg.bytes = Hello => ret[i] = FromBytesLittle(<<134, 166, 16, 54>>)
        /\ arg.bytes = Digits9 => ret[i] = FromBytesLittle(<<38, 57, 244, 203>>)

C7_ChunkInvariance ==
    /\ []ChunkInvariant
    /\ [][/\ ret' = Append(ret, Last(ret'))
          /\ UNCHANGED <<fs, dirs, clock, tool, pc, argv, args, file_paths, idx, call,
                         output_dir, delete_original, inputs, log, arg>>]_vars

\* nine bytes read four at a time, twice
C7_Witness ==
    /\ arg.bytes = Digits9 /\ arg.k = 4
    /\ Len(ret) = 2
    /\ ret[1] = ret[2]
    /\ ret[1] = FromBytesLittle(<<38, 57, 244, 203>>)


====
